---- MODULE Spec2Model ----
(***************************************************************************)
(* Model of the toy payments engine: the ledger state machine of           *)
(* src/src/transaction.rs, src/src/client.rs and src/src/engine.rs, and    *)
(* the channel between the producer (EngineHandle) and the engine task.    *)
(*                                                                         *)
(* Amounts are integers: a Decimal is counted in units of 1/SubUnits of    *)
(* the last decimal place of the output (0.0001). The comparisons and      *)
(* additions of the code are exact on them; the output rounds them.        *)
(***************************************************************************)
EXTENDS Integers, Sequences, FiniteSets, TLC

\* ------------------------------------------------------------------------
\* Bounds of the model
\* ------------------------------------------------------------------------
MaxClient == 2

MaxTxid == 2

MaxAmount == 2

ClientIds == 1..MaxClient

TxIds == 1..MaxTxid

\* Amounts that pass the negative-amount filter of process_csv_row.
Amounts == 0..MaxAmount

\* ------------------------------------------------------------------------
\* src/src/transaction.rs
\* ------------------------------------------------------------------------
TransactionState == {"Normal", "Disputed", "ChargedBack"}

TransactionKind == {"Deposit", "Withdrawal"}

\* Transaction::new with the duplicate check lost: every id is accepted.
Transaction_new_no_dedup(seen, txid, kind, amount) ==
    [seen_txids |-> seen \cup {txid},
     err |-> "Ok",
     tx |-> [txid |-> txid, kind |-> kind, amount |-> amount, state |-> "Normal"]]

\* Transaction::new that checks the id and forgets to record it.
Transaction_new_no_insert(seen, txid, kind, amount) ==
    [seen_txids |-> seen,
     err |-> IF txid \in seen THEN "TxAlreadySeen" ELSE "Ok",
     tx |-> [txid |-> txid, kind |-> kind, amount |-> amount, state |-> "Normal"]]

\* Transaction::new: the id is inserted into the seen set first; a duplicate
\* yields TxAlreadySeen, otherwise a transaction in state Normal.
Transaction_new(seen, txid, kind, amount) ==
    [seen_txids |-> seen \cup {txid},
     err |-> IF txid \in seen THEN "TxAlreadySeen" ELSE "Ok",
     tx |-> [txid |-> txid, kind |-> kind, amount |-> amount, state |-> "Normal"]]

\* check_state_is that accepts every state.
check_state_is_any(tx, state) == "Ok"

check_state_is(tx, state) ==
    IF tx.state # state THEN "TxNotInState" ELSE "Ok"

\* mark_disputed that accepts an entry in any state.
mark_disputed_from_any(tx) ==
    [err |-> "Ok", tx |-> [tx EXCEPT !.state = "Disputed"]]

mark_disputed(tx) ==
    IF check_state_is(tx, "Normal") # "Ok"
    THEN [err |-> check_state_is(tx, "Normal"), tx |-> tx]
    ELSE [err |-> "Ok", tx |-> [tx EXCEPT !.state = "Disputed"]]

\* mark_resolved that leaves the entry Disputed.
mark_resolved_stays_disputed(tx) ==
    IF check_state_is(tx, "Disputed") # "Ok"
    THEN [err |-> check_state_is(tx, "Disputed"), tx |-> tx]
    ELSE [err |-> "Ok", tx |-> tx]

mark_resolved(tx) ==
    IF check_state_is(tx, "Disputed") # "Ok"
    THEN [err |-> check_state_is(tx, "Disputed"), tx |-> tx]
    ELSE [err |-> "Ok", tx |-> [tx EXCEPT !.state = "Normal"]]

\* mark_chargedback that puts the entry back to Normal, as a resolve does.
mark_chargedback_as_normal(tx) ==
    IF check_state_is(tx, "Disputed") # "Ok"
    THEN [err |-> check_state_is(tx, "Disputed"), tx |-> tx]
    ELSE [err |-> "Ok", tx |-> [tx EXCEPT !.state = "Normal"]]

mark_chargedback(tx) ==
    IF check_state_is(tx, "Disputed") # "Ok"
    THEN [err |-> check_state_is(tx, "Disputed"), tx |-> tx]
    ELSE [err |-> "Ok", tx |-> [tx EXCEPT !.state = "ChargedBack"]]

\* ------------------------------------------------------------------------
\* src/src/client.rs
\* ------------------------------------------------------------------------
\* HashMap::insert: add or overwrite one key of a map.
MapInsert(m, k, v) ==
    [x \in DOMAIN m \cup {k} |-> IF x = k THEN v ELSE m[x]]

EmptyMap == [x \in {} |-> 0]

NewClientState ==
    [available |-> 0, held |-> 0, locked |-> FALSE, tx_lookup |-> EmptyMap]

\* total() that reports the available funds only.
total_available_only(client) == client.available

total(client) == client.held + client.available

\* get_unlocked_client_mut_or_create without the lock test.
get_or_create_ignoring_lock(all, client_id) ==
    IF client_id \in DOMAIN all
    THEN [err |-> "Ok", all |-> all]
    ELSE [err |-> "Ok", all |-> MapInsert(all, client_id, NewClientState)]

\* AllClientsState::get_unlocked_client_mut_or_create
get_unlocked_client_mut_or_create(all, client_id) ==
    IF client_id \in DOMAIN all /\ all[client_id].locked
    THEN [err |-> "ClientLocked", all |-> all]
    ELSE IF client_id \in DOMAIN all
         THEN [err |-> "Ok", all |-> all]
         ELSE [err |-> "Ok", all |-> MapInsert(all, client_id, NewClientState)]

\* get_unlocked_client_mut without the lock test.
get_client_mut_ignoring_lock(all, client_id) ==
    IF client_id \in DOMAIN all THEN "Ok" ELSE "ClientNotFound"

\* AllClientsState::get_unlocked_client_mut followed by the caller's
\* ok_or(ClientNotFound): "Ok" when the client exists and is unlocked.
get_unlocked_client_mut(all, client_id) ==
    IF client_id \in DOMAIN all
    THEN IF all[client_id].locked THEN "ClientLocked" ELSE "Ok"
    ELSE "ClientNotFound"

deposit(client, tx) ==
    [client EXCEPT !.available = @ + tx.amount,
                   !.tx_lookup = MapInsert(@, tx.txid, tx)]

\* withdraw that debits available without recording the entry.
withdraw_unrecorded(client, tx) ==
    IF client.available < tx.amount
    THEN [err |-> "InsufficientFunds", client |-> client]
    ELSE [err |-> "Ok", client |-> [client EXCEPT !.available = @ - tx.amount]]

\* withdraw that counts held funds as withdrawable.
withdraw_against_total(client, tx) ==
    IF client.available + client.held < tx.amount
    THEN [err |-> "InsufficientFunds", client |-> client]
    ELSE [err |-> "Ok",
          client |-> [client EXCEPT !.available = @ - tx.amount,
                                    !.tx_lookup = MapInsert(@, tx.txid, tx)]]

withdraw(client, tx) ==
    IF client.available < tx.amount
    THEN [err |-> "InsufficientFunds", client |-> client]
    ELSE [err |-> "Ok",
          client |-> [client EXCEPT !.available = @ - tx.amount,
                                    !.tx_lookup = MapInsert(@, tx.txid, tx)]]

\* dispute_transaction that debits available without crediting held.
dispute_transaction_no_hold(client, txid) ==
    IF txid \notin DOMAIN client.tx_lookup
    THEN [err |-> "TxNotFound", client |-> client]
    ELSE LET m == mark_disputed(client.tx_lookup[txid])
             marked == [client EXCEPT !.tx_lookup[txid] = m.tx]
         IN  IF m.err # "Ok"
             THEN [err |-> m.err, client |-> client]
             ELSE IF m.tx.kind = "Deposit"
                  THEN [err |-> "Ok",
                        client |-> [marked EXCEPT !.available = @ - m.tx.amount]]
                  ELSE [err |-> "TxCannotBeDisputed", client |-> marked]

\* dispute_transaction with a floor at zero: a dispute the available
\* balance cannot cover is refused.
dispute_transaction_floor(client, txid) ==
    IF txid \notin DOMAIN client.tx_lookup
    THEN [err |-> "TxNotFound", client |-> client]
    ELSE LET m == mark_disputed(client.tx_lookup[txid])
             marked == [client EXCEPT !.tx_lookup[txid] = m.tx]
         IN  IF m.err # "Ok"
             THEN [err |-> m.err, client |-> client]
             ELSE IF m.tx.kind = "Deposit"
                  THEN IF client.available < m.tx.amount
                       THEN [err |-> "InsufficientFunds", client |-> client]
                       ELSE [err |-> "Ok",
                             client |-> [marked EXCEPT !.available = @ - m.tx.amount,
                                                       !.held = @ + m.tx.amount]]
                  ELSE [err |-> "TxCannotBeDisputed", client |-> marked]

\* The entry is marked through a mutable reference into tx_lookup: the mark
\* stays in the map whatever the function returns afterwards.
dispute_transaction(client, txid) ==
    IF txid \notin DOMAIN client.tx_lookup
    THEN [err |-> "TxNotFound", client |-> client]
    ELSE LET m == mark_disputed(client.tx_lookup[txid])
             marked == [client EXCEPT !.tx_lookup[txid] = m.tx]
         IN  IF m.err # "Ok"
             THEN [err |-> m.err, client |-> client]
             ELSE IF m.tx.kind = "Deposit"
                  THEN [err |-> "Ok",
                        client |-> [marked EXCEPT !.available = @ - m.tx.amount,
                                                  !.held = @ + m.tx.amount]]
                  ELSE [err |-> "TxCannotBeDisputed", client |-> marked]

resolve_transaction(client, txid) ==
    IF txid \notin DOMAIN client.tx_lookup
    THEN [err |-> "TxNotFound", client |-> client]
    ELSE LET m == mark_resolved(client.tx_lookup[txid])
             marked == [client EXCEPT !.tx_lookup[txid] = m.tx]
         IN  IF m.err # "Ok"
             THEN [err |-> m.err, client |-> client]
             ELSE IF m.tx.kind = "Deposit"
                  THEN IF client.held < m.tx.amount
                       THEN [err |-> "InternalError", client |-> marked]
                       ELSE [err |-> "Ok",
                             client |-> [marked EXCEPT !.held = @ - m.tx.amount,
                                                       !.available = @ + m.tx.amount]]
                  ELSE [err |-> "TxCannotBeDisputed", client |-> marked]

\* chargeback_transaction that forgets to lock the account.
chargeback_transaction_no_lock(client, txid) ==
    IF txid \notin DOMAIN client.tx_lookup
    THEN [err |-> "TxNotFound", client |-> client]
    ELSE LET m == mark_chargedback(client.tx_lookup[txid])
             marked == [client EXCEPT !.tx_lookup[txid] = m.tx]
         IN  IF m.err # "Ok"
             THEN [err |-> m.err, client |-> client]
             ELSE IF m.tx.kind = "Deposit"
                  THEN IF client.held < m.tx.amount
                       THEN [err |-> "InternalError", client |-> marked]
                       ELSE [err |-> "Ok",
                             client |-> [marked EXCEPT !.held = @ - m.tx.amount]]
                  ELSE [err |-> "TxCannotBeDisputed", client |-> marked]

chargeback_transaction(client, txid) ==
    IF txid \notin DOMAIN client.tx_lookup
    THEN [err |-> "TxNotFound", client |-> client]
    ELSE LET m == mark_chargedback(client.tx_lookup[txid])
             marked == [client EXCEPT !.tx_lookup[txid] = m.tx]
         IN  IF m.err # "Ok"
             THEN [err |-> m.err, client |-> client]
             ELSE IF m.tx.kind = "Deposit"
                  THEN IF client.held < m.tx.amount
                       THEN [err |-> "InternalError", client |-> marked]
                       ELSE [err |-> "Ok",
                             client |-> [marked EXCEPT !.held = @ - m.tx.amount,
                                                       !.locked = TRUE]]
                  ELSE [err |-> "TxCannotBeDisputed", client |-> marked]

\* ------------------------------------------------------------------------
\* src/src/engine.rs
\* ------------------------------------------------------------------------
EngineEvent(type, txid, client_id, amount) ==
    [type |-> type, txid |-> txid, client_id |-> client_id, amount |-> amount]

ExitEvent == EngineEvent("Exit", 0, 0, 0)

NoEvent == EngineEvent("None", 0, 0, 0)

NewEngineState == [all_clients_state |-> EmptyMap, seen_txids |-> {}]

\* The Deposit and Withdrawal arms with the account looked up before it is
\* created: a withdrawal that fails leaves no new account behind.
handle_new_transaction_no_account(engine, event) ==
    LET t == Transaction_new(engine.seen_txids, event.txid, event.type, event.amount)
        g == get_unlocked_client_mut_or_create(engine.all_clients_state, event.client_id)
        consumed == [engine EXCEPT !.seen_txids = t.seen_txids]
        created == [consumed EXCEPT !.all_clients_state = g.all]
    IN  IF t.err # "Ok" THEN [out |-> t.err, engine |-> consumed]
        ELSE IF g.err # "Ok" THEN [out |-> g.err, engine |-> consumed]
        ELSE IF event.type = "Deposit"
             THEN [out |-> "Continue",
                   engine |-> [created EXCEPT !.all_clients_state[event.client_id] =
                                                  deposit(@, t.tx)]]
             ELSE LET w == withdraw(g.all[event.client_id], t.tx)
                  IN  IF w.err # "Ok" THEN [out |-> w.err, engine |-> consumed]
                      ELSE [out |-> "Continue",
                            engine |-> [created EXCEPT
                                            !.all_clients_state[event.client_id] = w.client]]

\* The Deposit and Withdrawal arms giving the id back when the withdrawal
\* fails, so that it can be tried again.
handle_new_transaction_release_id(engine, event) ==
    LET t == Transaction_new(engine.seen_txids, event.txid, event.type, event.amount)
        g == get_unlocked_client_mut_or_create(engine.all_clients_state, event.client_id)
        consumed == [engine EXCEPT !.seen_txids = t.seen_txids]
        created == [consumed EXCEPT !.all_clients_state = g.all]
    IN  IF t.err # "Ok" THEN [out |-> t.err, engine |-> consumed]
        ELSE IF g.err # "Ok" THEN [out |-> g.err, engine |-> consumed]
        ELSE IF event.type = "Deposit"
             THEN [out |-> "Continue",
                   engine |-> [created EXCEPT !.all_clients_state[event.client_id] =
                                                  deposit(@, t.tx)]]
             ELSE LET w == withdraw(g.all[event.client_id], t.tx)
                  IN  IF w.err # "Ok"
                      THEN [out |-> w.err,
                            engine |-> [created EXCEPT !.seen_txids = engine.seen_txids]]
                      ELSE [out |-> "Continue",
                            engine |-> [created EXCEPT
                                            !.all_clients_state[event.client_id] = w.client]]

\* One arm of handle_engine_event for Deposit and Withdrawal.
handle_new_transaction(engine, event) ==
    LET t == Transaction_new(engine.seen_txids, event.txid, event.type, event.amount)
        g == get_unlocked_client_mut_or_create(engine.all_clients_state, event.client_id)
        consumed == [engine EXCEPT !.seen_txids = t.seen_txids]
        created == [consumed EXCEPT !.all_clients_state = g.all]
    IN  IF t.err # "Ok" THEN [out |-> t.err, engine |-> consumed]
        ELSE IF g.err # "Ok" THEN [out |-> g.err, engine |-> consumed]
        ELSE IF event.type = "Deposit"
             THEN [out |-> "Continue",
                   engine |-> [created EXCEPT !.all_clients_state[event.client_id] =
                                                  deposit(@, t.tx)]]
             ELSE LET w == withdraw(g.all[event.client_id], t.tx)
                  IN  [out |-> IF w.err = "Ok" THEN "Continue" ELSE w.err,
                       engine |-> [created EXCEPT !.all_clients_state[event.client_id] =
                                                      w.client]]

\* The Dispute, Resolve and Chargeback arms creating a missing account, as
\* the Deposit and Withdrawal arms do.
handle_reference_creating(engine, event) ==
    LET g == get_unlocked_client_mut_or_create(engine.all_clients_state, event.client_id)
        c == g.all[event.client_id]
        r == CASE event.type = "Dispute" -> dispute_transaction(c, event.txid)
               [] event.type = "Resolve" -> resolve_transaction(c, event.txid)
               [] OTHER -> chargeback_transaction(c, event.txid)
    IN  IF g.err # "Ok" THEN [out |-> g.err, engine |-> engine]
        ELSE [out |-> IF r.err = "Ok" THEN "Continue" ELSE r.err,
              engine |-> [engine EXCEPT !.all_clients_state =
                              [g.all EXCEPT ![event.client_id] = r.client]]]

\* The Dispute, Resolve and Chargeback arms looking the id up in every
\* account: the entry's owner is changed, whichever client the event names.
handle_reference_any_owner(engine, event) ==
    LET all == engine.all_clients_state
        g == get_unlocked_client_mut(all, event.client_id)
        owners == {o \in DOMAIN all : event.txid \in DOMAIN all[o].tx_lookup}
        target == IF owners = {} THEN event.client_id ELSE CHOOSE o \in owners : TRUE
        c == all[target]
        r == CASE event.type = "Dispute" -> dispute_transaction(c, event.txid)
               [] event.type = "Resolve" -> resolve_transaction(c, event.txid)
               [] OTHER -> chargeback_transaction(c, event.txid)
    IN  IF g # "Ok" THEN [out |-> g, engine |-> engine]
        ELSE [out |-> IF r.err = "Ok" THEN "Continue" ELSE r.err,
              engine |-> [engine EXCEPT !.all_clients_state[target] = r.client]]

\* The arms of handle_engine_event for Dispute, Resolve and Chargeback.
handle_reference(engine, event) ==
    LET g == get_unlocked_client_mut(engine.all_clients_state, event.client_id)
        c == engine.all_clients_state[event.client_id]
        r == CASE event.type = "Dispute" -> dispute_transaction(c, event.txid)
               [] event.type = "Resolve" -> resolve_transaction(c, event.txid)
               [] OTHER -> chargeback_transaction(c, event.txid)
    IN  IF g # "Ok" THEN [out |-> g, engine |-> engine]
        ELSE [out |-> IF r.err = "Ok" THEN "Continue" ELSE r.err,
              engine |-> [engine EXCEPT !.all_clients_state[event.client_id] = r.client]]

handle_engine_event(engine, event) ==
    CASE event.type \in {"Deposit", "Withdrawal"} -> handle_new_transaction(engine, event)
      [] event.type \in {"Dispute", "Resolve", "Chargeback"} -> handle_reference(engine, event)
      [] OTHER -> [out |-> "Exit", engine |-> engine]

\* ------------------------------------------------------------------------
\* src/src/csv.rs
\* ------------------------------------------------------------------------
\* Model units per unit of the last decimal place of the output.
SubUnits == 2

\* serialize_decimal: Decimal::round_dp(DECIMAL_ACCURACY), which rounds to the
\* nearest unit of the last place and a midpoint to the even neighbour. The
\* result is counted in units of the last place.
serialize_decimal(dec) ==
    LET q == dec \div SubUnits
        r == dec % SubUnits
    IN  IF 2 * r < SubUnits THEN q
        ELSE IF 2 * r > SubUnits THEN q + 1
        ELSE IF q % 2 = 0 THEN q ELSE q + 1

\* output_client_state: one CsvOutputRecord per account, as serialized.
output_client_state(all) ==
    {[client_id |-> c,
      available |-> serialize_decimal(all[c].available),
      held |-> serialize_decimal(all[c].held),
      total |-> serialize_decimal(total(all[c])),
      locked |-> all[c].locked] : c \in DOMAIN all}

\* ------------------------------------------------------------------------
\* State
\* ------------------------------------------------------------------------
VARIABLES
    engine_state,   \* EngineState owned by the engine task
    enginePc,       \* "running" | "send_state" (Exit handled, the task is at
                    \* response_tx.send(..).await) | "returned" (state sent, task
                    \* ended) | "exited" (process::exit(1))
    chan,           \* engine_event channel: events sent and not yet received
    response,       \* response channel
    producerPc,     \* "input" | "await_state" (in shutdown) | "done"
    returned,       \* what shutdown() returned to the producer
    lastEvent,      \* history: the event the engine handled last
    lastResult,     \* history: what handle_engine_event returned for it
    carried,        \* history: ids carried by the Deposit/Withdrawal events handled so far
    tick,           \* history: flips at every iteration of the engine loop
    firstResult,    \* history: when the event handled last is the one handled just
                    \* before it and was rejected then, that first error; else "None"
    reference       \* history: the submitted events applied one by one, in submission order

vars == <<engine_state, enginePc, chan, response, producerPc, returned,
          lastEvent, lastResult, carried, tick, firstResult, reference>>

\* Capacity of the engine_event channel. The code sets 10_000
\* (engine.rs:13); the model checks a small capacity.
CHANNEL_BUFFER_SIZE == 2

NoState == [all_clients_state |-> EmptyMap, seen_txids |-> {}, none |-> TRUE]

Init ==
    /\ engine_state = NewEngineState
    /\ enginePc = "running"
    /\ chan = <<>>
    /\ response = <<>>
    /\ producerPc = "input"
    /\ returned = NoState
    /\ lastEvent = NoEvent
    /\ lastResult = "None"
    /\ carried = {}
    /\ tick = FALSE
    /\ firstResult = "None"
    /\ reference = [engine |-> NewEngineState, pc |-> "running"]

\* The engine loop going on after Exit.
engine_loop_pc_no_return(out) ==
    CASE out = "InternalError" -> "exited"
      [] OTHER -> "running"

\* The engine loop treating InternalError as one more soft error.
engine_loop_pc_swallow(out) ==
    CASE out = "Exit" -> "send_state"
      [] OTHER -> "running"

\* Where one iteration of the engine loop leaves the engine task.
engine_loop_pc(out) ==
    CASE out = "Exit" -> "send_state"
      [] out = "InternalError" -> "exited"
      [] OTHER -> "running"

\* One iteration of the loop of spawn_engine on a received event, up to the
\* next await: the recv of the next iteration, or the send of the state.
EngineLoop(event) ==
    LET r == handle_engine_event(engine_state, event)
    IN  /\ enginePc = "running"
        /\ engine_state' = r.engine
        /\ enginePc' = engine_loop_pc(r.out)
        /\ response' = response
        /\ lastEvent' = event
        /\ lastResult' = r.out
        /\ tick' = ~tick
        /\ firstResult' = IF event = lastEvent
                              /\ lastResult \notin {"None", "Continue", "Exit"}
                           THEN lastResult ELSE "None"
        /\ carried' = IF event.type \in {"Deposit", "Withdrawal"}
                      THEN carried \cup {event.txid} ELSE carried

\* The engine task resumed at response_tx.send(..).await after Exit: the state
\* goes to the response channel and the task ends. The task can be suspended
\* at this await, so the producer can run between the handling of Exit and
\* this step.
SendResponse ==
    /\ enginePc = "send_state"
    /\ Len(response) < CHANNEL_BUFFER_SIZE
    /\ response' = Append(response, engine_state)
    /\ enginePc' = "returned"
    /\ UNCHANGED <<engine_state, chan, producerPc, returned, lastEvent,
                   lastResult, carried, tick, firstResult, reference>>

\* ------------------------------------------------------------------------
\* Spec: the ledger state machine. The engine task receives one event and
\* runs the loop body on it; the event is any the producer can have sent.
\* ------------------------------------------------------------------------
Deposit(txid, client_id, amount) ==
    /\ EngineLoop(EngineEvent("Deposit", txid, client_id, amount))
    /\ UNCHANGED <<chan, producerPc, returned, reference>>

Withdrawal(txid, client_id, amount) ==
    /\ EngineLoop(EngineEvent("Withdrawal", txid, client_id, amount))
    /\ UNCHANGED <<chan, producerPc, returned, reference>>

Dispute(txid, client_id) ==
    /\ EngineLoop(EngineEvent("Dispute", txid, client_id, 0))
    /\ UNCHANGED <<chan, producerPc, returned, reference>>

Resolve(txid, client_id) ==
    /\ EngineLoop(EngineEvent("Resolve", txid, client_id, 0))
    /\ UNCHANGED <<chan, producerPc, returned, reference>>

Chargeback(txid, client_id) ==
    /\ EngineLoop(EngineEvent("Chargeback", txid, client_id, 0))
    /\ UNCHANGED <<chan, producerPc, returned, reference>>

Exit ==
    /\ EngineLoop(ExitEvent)
    /\ UNCHANGED <<chan, producerPc, returned, reference>>

Next ==
    \/ \E txid \in TxIds, client_id \in ClientIds, amount \in Amounts :
           Deposit(txid, client_id, amount)
    \/ \E txid \in TxIds, client_id \in ClientIds, amount \in Amounts :
           Withdrawal(txid, client_id, amount)
    \/ \E txid \in TxIds, client_id \in ClientIds : Dispute(txid, client_id)
    \/ \E txid \in TxIds, client_id \in ClientIds : Resolve(txid, client_id)
    \/ \E txid \in TxIds, client_id \in ClientIds : Chargeback(txid, client_id)
    \/ Exit
    \/ SendResponse

Spec == Init /\ [][Next]_vars

\* ------------------------------------------------------------------------
\* WithdrawSpec: the ledger state machine with a third id, so that a
\* Withdrawal with a fresh id can follow a Deposit, a Withdrawal and the
\* Dispute that leaves available negative. Client 1 carries every id, the
\* other clients the last one only.
\* ------------------------------------------------------------------------
MaxWithdrawTxid == 3

MaxWithdrawAmount == 1

WithdrawTxIds == 1..MaxWithdrawTxid

WithdrawAmounts == 0..MaxWithdrawAmount

\* The pairs of id and client that an event carries.
WithdrawNames ==
    {p \in WithdrawTxIds \X ClientIds : p[2] = 1 \/ p[1] = MaxWithdrawTxid}

WithdrawNext ==
    \/ \E p \in WithdrawNames, amount \in WithdrawAmounts : Deposit(p[1], p[2], amount)
    \/ \E p \in WithdrawNames, amount \in WithdrawAmounts :
           Withdrawal(p[1], p[2], amount)
    \/ \E p \in WithdrawNames : Dispute(p[1], p[2])
    \/ \E p \in WithdrawNames : Resolve(p[1], p[2])
    \/ \E p \in WithdrawNames : Chargeback(p[1], p[2])
    \/ Exit
    \/ SendResponse

WithdrawSpec == Init /\ [][WithdrawNext]_vars

\* ------------------------------------------------------------------------
\* ChanSpec: the producer (EngineHandle), the bounded channel and the engine
\* task. The producer is any caller of send_event: the amounts are the
\* signed amounts an EngineEvent can carry.
\* ------------------------------------------------------------------------
MaxChanClient == 1

MaxChanAmount == 1

MaxNegAmount == 1

ChanClientIds == 1..MaxChanClient

\* One negative and the positive amounts.
RawAmounts == {0 - MaxNegAmount} \cup (1..MaxChanAmount)

ChanEvents ==
    {EngineEvent(type, txid, client_id, amount) :
        type \in {"Deposit", "Withdrawal"}, txid \in TxIds,
        client_id \in ChanClientIds, amount \in RawAmounts}
    \cup
    {EngineEvent(type, txid, client_id, 0) :
        type \in {"Dispute", "Resolve", "Chargeback"}, txid \in TxIds,
        client_id \in ChanClientIds}

\* The submitted events applied in order by a sequential processor that
\* stops where the engine loop stops.
ReferenceStep(ref, event) ==
    LET r == handle_engine_event(ref.engine, event)
    IN  IF ref.pc # "running" THEN ref
        ELSE [engine |-> r.engine, pc |-> engine_loop_pc(r.out)]

\* mpsc::Sender::send: completes once the channel has room for the event.
channel_send(queue, event) == Append(queue, event)

\* A channel that hands out the newest event first.
channel_recv_newest(queue) ==
    [event |-> queue[Len(queue)], rest |-> SubSeq(queue, 1, Len(queue) - 1)]

\* mpsc::Receiver::recv: the oldest event of the channel.
channel_recv(queue) == [event |-> Head(queue), rest |-> Tail(queue)]

\* send_event on a channel that admits one event beyond its capacity.
SendEvent_over_capacity(event) ==
    /\ producerPc = "input"
    /\ enginePc = "running"
    /\ Len(chan) <= CHANNEL_BUFFER_SIZE
    /\ chan' = channel_send(chan, event)
    /\ reference' = ReferenceStep(reference, event)
    /\ UNCHANGED <<engine_state, enginePc, response, producerPc, returned,
                   lastEvent, lastResult, carried, tick, firstResult>>

\* EngineHandle::send_event
SendEvent(event) ==
    /\ producerPc = "input"
    /\ enginePc = "running"
    /\ Len(chan) < CHANNEL_BUFFER_SIZE
    /\ chan' = channel_send(chan, event)
    /\ reference' = ReferenceStep(reference, event)
    /\ UNCHANGED <<engine_state, enginePc, response, producerPc, returned,
                   lastEvent, lastResult, carried, tick, firstResult>>

\* EngineHandle::shutdown, first await: Exit goes through the same channel.
ShutdownSend ==
    /\ producerPc = "input"
    /\ enginePc = "running"
    /\ Len(chan) < CHANNEL_BUFFER_SIZE
    /\ chan' = channel_send(chan, ExitEvent)
    /\ reference' = ReferenceStep(reference, ExitEvent)
    /\ producerPc' = "await_state"
    /\ UNCHANGED <<engine_state, enginePc, response, returned,
                   lastEvent, lastResult, carried, tick, firstResult>>

\* EngineHandle::shutdown, second await: the engine state arrives.
ShutdownRecv ==
    /\ producerPc = "await_state"
    /\ enginePc # "exited"
    /\ response # <<>>
    /\ returned' = Head(response)
    /\ response' = Tail(response)
    /\ producerPc' = "done"
    /\ UNCHANGED <<engine_state, enginePc, chan, lastEvent, lastResult,
                   carried, tick, firstResult, reference>>

\* The engine task: recv().await, then the loop body.
EngineRecv ==
    /\ chan # <<>>
    /\ EngineLoop(channel_recv(chan).event)
    /\ chan' = channel_recv(chan).rest
    /\ UNCHANGED <<producerPc, returned, reference>>

ChanNext ==
    \/ \E event \in ChanEvents : SendEvent(event)
    \/ ShutdownSend
    \/ ShutdownRecv
    \/ EngineRecv
    \/ SendResponse

ChanSpec == Init /\ [][ChanNext]_vars

\* FairChanSpec: ChanSpec under fair scheduling, for a producer whose events
\* carry the ids up to MaxFairTxid. The tokio runtime polls the engine task
\* while its channel holds an event, and the producer while the response
\* channel holds the state.
MaxFairTxid == 1

FairEvents == {event \in ChanEvents : event.txid <= MaxFairTxid}

FairNext ==
    \/ \E event \in FairEvents : SendEvent(event)
    \/ ShutdownSend
    \/ ShutdownRecv
    \/ EngineRecv
    \/ SendResponse

FairChanSpec ==
    Init /\ [][FairNext]_vars
         /\ WF_vars(EngineRecv) /\ WF_vars(SendResponse) /\ WF_vars(ShutdownRecv)

\* ------------------------------------------------------------------------
\* Properties of the ledger state machine (Spec)
\* ------------------------------------------------------------------------
all_clients == engine_state.all_clients_state

\* The engine loop ran once in this step, on event lastEvent'.
Handled == tick' # tick

SoftErrors ==
    {"TxAlreadySeen", "ClientLocked", "ClientNotFound", "TxNotFound",
     "InsufficientFunds", "TxNotInState", "TxCannotBeDisputed"}

Rejected(result) == result \in SoftErrors \cup {"InternalError"}

ClientEventTypes == {"Deposit", "Withdrawal", "Dispute", "Resolve", "Chargeback"}

\* available, held and locked of every account.
Balances(all) ==
    [c \in DOMAIN all |-> <<all[c].available, all[c].held, all[c].locked>>]

\* The ids of the entries owned by the accounts.
EntryIds(all) == UNION {DOMAIN all[c].tx_lookup : c \in DOMAIN all}

\* C1: a Deposit or Withdrawal carrying an id that an earlier handled Deposit
\* or Withdrawal carried is rejected with TxAlreadySeen (DuplicateTransaction),
\* changes no balance or lock flag and creates no account.
C1_DuplicateIdRejected ==
    [][(Handled /\ lastEvent'.type \in {"Deposit", "Withdrawal"}
                /\ lastEvent'.txid \in carried)
       => (/\ lastResult' = "TxAlreadySeen"
           /\ Balances(all_clients') = Balances(all_clients)
           /\ all_clients' = all_clients)]_vars

\* A duplicate id was rejected for a client that has no account, while the
\* id's first use had credited another client.
C1_Witness ==
    /\ lastResult = "TxAlreadySeen"
    /\ lastEvent.type = "Deposit"
    /\ lastEvent.amount > 0
    /\ lastEvent.client_id \notin DOMAIN all_clients
    /\ \E c \in DOMAIN all_clients :
           /\ lastEvent.txid \in DOMAIN all_clients[c].tx_lookup
           /\ all_clients[c].available > 0

\* C2 as stated: the seen set equals the union of the per-client entry maps.
C2_SeenEqualsEntries ==
    engine_state.seen_txids = EntryIds(all_clients)

\* C2 amended: every id of a per-client entry map is in the seen set, and
\* no id ever leaves the seen set or an entry map (no account is removed).
C2_EntriesSeenAndKept ==
    /\ [](EntryIds(all_clients) \subseteq engine_state.seen_txids)
    /\ [][/\ engine_state.seen_txids \subseteq engine_state'.seen_txids
          /\ \A c \in DOMAIN all_clients :
                 /\ c \in DOMAIN all_clients'
                 /\ DOMAIN all_clients[c].tx_lookup
                        \subseteq DOMAIN all_clients'[c].tx_lookup]_vars

\* An id is seen and owned by no account (a rejected withdrawal), next to an
\* id that is seen and owned.
C2_Witness ==
    /\ EntryIds(all_clients) # {}
    /\ engine_state.seen_txids \ EntryIds(all_clients) # {}
    /\ lastResult = "InsufficientFunds"

\* C3 as stated: a Dispute naming a Withdrawal entry of an existing unlocked
\* client fails and leaves the account, the entry's state included, as it was.
C3_DisputeWithdrawalNoEffect ==
    [][(/\ Handled
        /\ lastEvent'.type = "Dispute"
        /\ lastEvent'.client_id \in DOMAIN all_clients
        /\ ~all_clients[lastEvent'.client_id].locked
        /\ lastEvent'.txid \in DOMAIN all_clients[lastEvent'.client_id].tx_lookup
        /\ all_clients[lastEvent'.client_id].tx_lookup[lastEvent'.txid].kind
               = "Withdrawal")
       => (/\ Rejected(lastResult')
           /\ all_clients'[lastEvent'.client_id] = all_clients[lastEvent'.client_id])]_vars

\* C4: once an account is locked, every Deposit, Withdrawal, Dispute, Resolve
\* and Chargeback naming its client is rejected and the account (balances,
\* lock flag, entry map, entry states) never changes again.
C4_LockedIsFinal ==
    [][\A c \in DOMAIN all_clients :
          all_clients[c].locked =>
              /\ c \in DOMAIN all_clients'
              /\ all_clients'[c] = all_clients[c]
              /\ (Handled /\ lastEvent'.type \in ClientEventTypes
                          /\ lastEvent'.client_id = c)
                     => Rejected(lastResult')]_vars

\* A Deposit with a fresh id was rejected for a locked client.
C4_Witness ==
    /\ lastEvent.type = "Deposit"
    /\ lastEvent.amount > 0
    /\ lastResult = "ClientLocked"
    /\ lastEvent.client_id \in DOMAIN all_clients
    /\ all_clients[lastEvent.client_id].locked
    /\ lastEvent.txid \notin EntryIds(all_clients)

\* C5: a successful Chargeback leaves its client locked, and an account
\* becomes locked (or is created locked) by nothing but a successful
\* Chargeback naming its client.
C5_LockedIffChargeback ==
    [][/\ (Handled /\ lastEvent'.type = "Chargeback" /\ lastResult' = "Continue")
              => /\ lastEvent'.client_id \in DOMAIN all_clients'
                 /\ all_clients'[lastEvent'.client_id].locked
       /\ \A c \in DOMAIN all_clients' :
              (all_clients'[c].locked
                   /\ (c \notin DOMAIN all_clients \/ ~all_clients[c].locked))
              => /\ Handled
                 /\ lastEvent'.type = "Chargeback"
                 /\ lastEvent'.client_id = c
                 /\ lastResult' = "Continue"]_vars

\* A Chargeback succeeded and locked its client while another account is
\* still unlocked.
C5_Witness ==
    /\ lastEvent.type = "Chargeback"
    /\ lastResult = "Continue"
    /\ all_clients[lastEvent.client_id].locked
    /\ \E c \in DOMAIN all_clients : ~all_clients[c].locked

\* The entry a Resolve or Chargeback event names, when its client has one.
NamesEntry(all, event) ==
    /\ event.client_id \in DOMAIN all
    /\ event.txid \in DOMAIN all[event.client_id].tx_lookup

\* C6 as stated: a Resolve or Chargeback naming an entry that is not Disputed
\* fails with TxNotInState (InvalidStateTransition) and changes no balance.
C6_NotDisputedIsInvalidState ==
    [][(/\ Handled
        /\ lastEvent'.type \in {"Resolve", "Chargeback"}
        /\ NamesEntry(all_clients, lastEvent')
        /\ all_clients[lastEvent'.client_id].tx_lookup[lastEvent'.txid].state
               # "Disputed")
       => (/\ lastResult' = "TxNotInState"
           /\ Balances(all_clients') = Balances(all_clients))]_vars

\* C6 amended: such an event always fails and changes no balance; the error
\* is TxNotInState when the client is unlocked and ClientLocked when it is
\* locked.
C6_NotDisputedRejected ==
    [][(/\ Handled
        /\ lastEvent'.type \in {"Resolve", "Chargeback"}
        /\ NamesEntry(all_clients, lastEvent')
        /\ all_clients[lastEvent'.client_id].tx_lookup[lastEvent'.txid].state
               # "Disputed")
       => (/\ lastResult' = IF all_clients[lastEvent'.client_id].locked
                            THEN "ClientLocked" ELSE "TxNotInState"
           /\ Balances(all_clients') = Balances(all_clients))]_vars

\* A Chargeback named a Normal Deposit entry of an unlocked client holding
\* funds, and was rejected with TxNotInState.
C6_Witness ==
    /\ lastEvent.type = "Chargeback"
    /\ lastResult = "TxNotInState"
    /\ NamesEntry(all_clients, lastEvent)
    /\ all_clients[lastEvent.client_id].tx_lookup[lastEvent.txid].state = "Normal"
    /\ all_clients[lastEvent.client_id].tx_lookup[lastEvent.txid].kind = "Deposit"
    /\ all_clients[lastEvent.client_id].available > 0
    /\ ~all_clients[lastEvent.client_id].locked

\* C9 as stated: an operation that returns an error leaves every account
\* (balances, lock flag, entry map, entry states) as it was before the call.
C9_ErrorLeavesAccountUnchanged ==
    [][(Handled /\ Rejected(lastResult'))
       => \A c \in DOMAIN all_clients :
              /\ c \in DOMAIN all_clients'
              /\ all_clients'[c] = all_clients[c]]_vars

\* C10 as stated: every event naming a locked client is rejected with
\* ClientLocked (AccountLocked), whatever id it carries.
C10_LockedAlwaysClientLocked ==
    [][(/\ Handled
        /\ lastEvent'.type \in ClientEventTypes
        /\ lastEvent'.client_id \in DOMAIN all_clients
        /\ all_clients[lastEvent'.client_id].locked)
       => lastResult' = "ClientLocked"]_vars

\* C10 amended: a Dispute, Resolve or Chargeback naming a locked client is
\* rejected with ClientLocked whatever id it carries; a Deposit or Withdrawal
\* naming a locked client is rejected with TxAlreadySeen when its id was seen
\* before and with ClientLocked when its id is fresh.
C10_LockedRejection ==
    [][(/\ Handled
        /\ lastEvent'.type \in ClientEventTypes
        /\ lastEvent'.client_id \in DOMAIN all_clients
        /\ all_clients[lastEvent'.client_id].locked)
       => lastResult' =
              IF /\ lastEvent'.type \in {"Deposit", "Withdrawal"}
                 /\ lastEvent'.txid \in engine_state.seen_txids
              THEN "TxAlreadySeen" ELSE "ClientLocked"]_vars

\* A Dispute naming a locked client and an id owned by another client was
\* rejected with ClientLocked.
C10_Witness ==
    /\ lastEvent.type = "Dispute"
    /\ lastResult = "ClientLocked"
    /\ all_clients[lastEvent.client_id].locked
    /\ lastEvent.txid \notin DOMAIN all_clients[lastEvent.client_id].tx_lookup
    /\ lastEvent.txid \in EntryIds(all_clients)

\* C11: a Dispute, Resolve or Chargeback naming a client that has no
\* account fails with ClientNotFound and leaves the accounts as they were;
\* no step of these three kinds ever adds an account.
C11_ReferenceNeverCreates ==
    [][(Handled /\ lastEvent'.type \in {"Dispute", "Resolve", "Chargeback"})
       => /\ DOMAIN all_clients' = DOMAIN all_clients
          /\ lastEvent'.client_id \notin DOMAIN all_clients
                 => /\ lastResult' = "ClientNotFound"
                    /\ all_clients' = all_clients]_vars

\* A Dispute named an id that another client owns and a client that has no
\* account: it was rejected with ClientNotFound.
C11_Witness ==
    /\ lastEvent.type = "Dispute"
    /\ lastResult = "ClientNotFound"
    /\ lastEvent.client_id \notin DOMAIN all_clients
    /\ lastEvent.txid \in EntryIds(all_clients)

\* C12 as stated: after any handled Deposit or Withdrawal naming client c an
\* account for c exists.
C12_AnyDepositOrWithdrawalCreates ==
    [][(Handled /\ lastEvent'.type \in {"Deposit", "Withdrawal"})
       => lastEvent'.client_id \in DOMAIN all_clients']_vars

\* The available balance of an account that a Deposit or Withdrawal creates:
\* deposit adds the amount to the zero of the new account; withdraw refuses
\* an amount above that zero and subtracts any other, so a negative amount
\* is credited.
FirstBalance(event) ==
    IF event.type = "Deposit" THEN 0 + event.amount
    ELSE IF 0 < event.amount THEN 0
    ELSE 0 - event.amount

\* C12 amended: after a handled Deposit or Withdrawal that carries a fresh
\* id an account for its client exists; when the client had none, the new
\* account is available=0, held=0, locked=false plus the event's own effect.
\* A Deposit or Withdrawal with a seen id creates no account.
C12_FreshIdCreates ==
    [][(Handled /\ lastEvent'.type \in {"Deposit", "Withdrawal"})
       => IF lastEvent'.txid \in engine_state.seen_txids
          THEN DOMAIN all_clients' = DOMAIN all_clients
          ELSE /\ DOMAIN all_clients' = DOMAIN all_clients \cup {lastEvent'.client_id}
               /\ lastEvent'.client_id \notin DOMAIN all_clients
                      => /\ all_clients'[lastEvent'.client_id].available
                                = FirstBalance(lastEvent')
                         /\ all_clients'[lastEvent'.client_id].held = 0
                         /\ ~all_clients'[lastEvent'.client_id].locked]_vars

\* A Withdrawal with a fresh id was refused for a client that had no
\* account: the account exists, empty.
C12_Witness ==
    /\ lastEvent.type = "Withdrawal"
    /\ lastResult = "InsufficientFunds"
    /\ lastEvent.client_id \in DOMAIN all_clients
    /\ all_clients[lastEvent.client_id] = NewClientState
    /\ DOMAIN all_clients # {lastEvent.client_id}

\* The entry a Dispute, Resolve or Chargeback names is a Deposit entry in the
\* given state, owned by an unlocked client.
NamesDeposit(all, event, state) ==
    /\ event.client_id \in DOMAIN all
    /\ ~all[event.client_id].locked
    /\ event.txid \in DOMAIN all[event.client_id].tx_lookup
    /\ all[event.client_id].tx_lookup[event.txid].kind = "Deposit"
    /\ all[event.client_id].tx_lookup[event.txid].state = state

\* C13: a Dispute naming a Normal Deposit entry of an unlocked client
\* succeeds; available decreases by the entry's amount (below zero when it
\* has to), held increases by it, the entry becomes Disputed and nothing
\* else changes.
C13_DisputeMovesFundsToHeld ==
    [][(Handled /\ lastEvent'.type = "Dispute"
                /\ NamesDeposit(all_clients, lastEvent', "Normal"))
       => LET c == lastEvent'.client_id
              t == lastEvent'.txid
              a == all_clients[c].tx_lookup[t].amount
          IN  /\ lastResult' = "Continue"
              /\ all_clients' =
                     [all_clients EXCEPT ![c].available = @ - a,
                                         ![c].held = @ + a,
                                         ![c].tx_lookup[t].state = "Disputed"]
              /\ engine_state'.seen_txids = engine_state.seen_txids]_vars

\* A Dispute succeeded after part of the deposit was withdrawn: available
\* is negative.
C13_Witness ==
    /\ lastEvent.type = "Dispute"
    /\ lastResult = "Continue"
    /\ all_clients[lastEvent.client_id].available < 0
    /\ all_clients[lastEvent.client_id].held > 0

\* C14: a Chargeback naming a Disputed Deposit entry of an unlocked client
\* succeeds; held decreases by the entry's amount, available stays as it is,
\* the total decreases by the amount, the entry becomes ChargedBack, the
\* account becomes locked and nothing else changes.
C14_ChargebackRemovesHeld ==
    [][(Handled /\ lastEvent'.type = "Chargeback"
                /\ NamesDeposit(all_clients, lastEvent', "Disputed"))
       => LET c == lastEvent'.client_id
              t == lastEvent'.txid
              a == all_clients[c].tx_lookup[t].amount
          IN  /\ lastResult' = "Continue"
              /\ all_clients' =
                     [all_clients EXCEPT ![c].held = @ - a,
                                         ![c].locked = TRUE,
                                         ![c].tx_lookup[t].state = "ChargedBack"]
              /\ total(all_clients'[c]) = total(all_clients[c]) - a
              /\ engine_state'.seen_txids = engine_state.seen_txids]_vars

\* A Chargeback succeeded on an account whose available balance is
\* negative: it is locked with that balance.
C14_Witness ==
    /\ lastEvent.type = "Chargeback"
    /\ lastResult = "Continue"
    /\ all_clients[lastEvent.client_id].locked
    /\ all_clients[lastEvent.client_id].available < 0
    /\ all_clients[lastEvent.client_id].held = 0

\* The available balance a Deposit or Withdrawal finds: that of the account,
\* or zero when the account is created for it.
AvailableBefore(all, client_id) ==
    IF client_id \in DOMAIN all THEN all[client_id].available ELSE 0

HeldBefore(all, client_id) ==
    IF client_id \in DOMAIN all THEN all[client_id].held ELSE 0

\* C15: a Withdrawal with a fresh id for an unlocked or new client is
\* rejected with InsufficientFunds exactly when available is strictly less
\* than the amount, and then changes no balance; otherwise it succeeds and
\* available decreases by exactly the amount. Held funds do not count, and
\* with a negative available every amount, zero included, is rejected.
C15_WithdrawalAgainstAvailable ==
    [][(/\ Handled
        /\ lastEvent'.type = "Withdrawal"
        /\ lastEvent'.txid \notin engine_state.seen_txids
        /\ (lastEvent'.client_id \in DOMAIN all_clients
                => ~all_clients[lastEvent'.client_id].locked))
       => LET c == lastEvent'.client_id
              before == AvailableBefore(all_clients, c)
          IN  /\ lastResult' = IF before < lastEvent'.amount
                               THEN "InsufficientFunds" ELSE "Continue"
              /\ all_clients'[c].available =
                     IF before < lastEvent'.amount
                     THEN before ELSE before - lastEvent'.amount
              /\ before < 0 => lastResult' = "InsufficientFunds"
              /\ all_clients'[c].held = HeldBefore(all_clients, c)
              /\ ~all_clients'[c].locked
              /\ \A d \in DOMAIN all_clients \ {c} :
                     all_clients'[d] = all_clients[d]]_vars

\* A Withdrawal of a positive amount with a fresh id was refused for a
\* client whose available balance is negative, although its held funds
\* alone are as much as the amount.
C15_Witness ==
    /\ lastEvent.type = "Withdrawal"
    /\ lastResult = "InsufficientFunds"
    /\ lastEvent.amount > 0
    /\ lastEvent.txid \notin EntryIds(all_clients)
    /\ lastEvent.client_id \in DOMAIN all_clients
    /\ ~all_clients[lastEvent.client_id].locked
    /\ all_clients[lastEvent.client_id].available < 0
    /\ all_clients[lastEvent.client_id].held >= lastEvent.amount

\* C16: a Withdrawal rejected with InsufficientFunds leaves its id in the
\* seen set and its client with an account whose balances are unchanged
\* (a new account is available=0, held=0, locked=false, without entries);
\* every Deposit or Withdrawal that carries a seen id is rejected with
\* TxAlreadySeen.
C16_FailedWithdrawalConsumesId ==
    [][/\ (Handled /\ lastResult' = "InsufficientFunds")
              => /\ lastEvent'.type = "Withdrawal"
                 /\ lastEvent'.txid \in engine_state'.seen_txids
                 /\ lastEvent'.txid \notin EntryIds(all_clients')
                 /\ lastEvent'.client_id \in DOMAIN all_clients'
                 /\ all_clients'[lastEvent'.client_id] =
                        IF lastEvent'.client_id \in DOMAIN all_clients
                        THEN all_clients[lastEvent'.client_id]
                        ELSE NewClientState
       /\ (Handled /\ lastEvent'.type \in {"Deposit", "Withdrawal"}
                   /\ lastEvent'.txid \in engine_state.seen_txids)
              => lastResult' = "TxAlreadySeen"]_vars

\* A Deposit reused the id of a refused Withdrawal (the id is seen and no
\* account owns it) and was rejected; the client's account is still empty.
C16_Witness ==
    /\ lastEvent.type = "Deposit"
    /\ lastEvent.amount > 0
    /\ lastResult = "TxAlreadySeen"
    /\ lastEvent.txid \notin EntryIds(all_clients)
    /\ lastEvent.client_id \in DOMAIN all_clients
    /\ all_clients[lastEvent.client_id] = NewClientState

\* The event handled in this step is the event handled just before it,
\* which was rejected.
Resubmitted == Handled /\ lastEvent' = lastEvent /\ Rejected(lastResult)

\* C17 as stated: an event that was rejected and is submitted again at once
\* is rejected with the same error and leaves the state as it was.
C17_SameRejection ==
    [][Resubmitted
       => /\ lastResult' = lastResult
          /\ engine_state' = engine_state]_vars

\* The error of the second submission, given the event and its first error.
SecondError(event, first) ==
    CASE first = "InsufficientFunds" -> "TxAlreadySeen"
      [] first = "ClientLocked" /\ event.type \in {"Deposit", "Withdrawal"}
             -> "TxAlreadySeen"
      [] first = "TxCannotBeDisputed" -> "TxNotInState"
      [] OTHER -> first

\* C17 amended: an event that was rejected and is submitted again at once
\* is rejected again and leaves the state as it was after the first
\* rejection. The error is the same, except that InsufficientFunds, and
\* ClientLocked of a Deposit or Withdrawal, become TxAlreadySeen (the first
\* submission consumed the id), and TxCannotBeDisputed becomes TxNotInState
\* (the first submission changed the entry's state).
C17_RejectedAgain ==
    [][Resubmitted
       => /\ Rejected(lastResult')
          /\ lastResult' = SecondError(lastEvent, lastResult)
          /\ engine_state' = engine_state]_vars

\* A Withdrawal refused for InsufficientFunds was submitted again and
\* rejected as a duplicate.
C17_Witness ==
    /\ lastEvent.type = "Withdrawal"
    /\ firstResult = "InsufficientFunds"
    /\ lastResult = "TxAlreadySeen"

\* The account maps a total is reported of: the engine's, and the one of a
\* state sent to shutdown.
ReportedStates ==
    {all_clients} \cup {response[i].all_clients_state : i \in 1..Len(response)}

\* available + held of a client, zero while it has no account.
Funds(all, c) ==
    IF c \in DOMAIN all THEN all[c].available + all[c].held ELSE 0

\* C18 as stated: the total reported for a client in the output equals the
\* available plus the held reported for it.
C18_ReportedTotalIsSum ==
    \A all \in ReportedStates : \A rec \in output_client_state(all) :
        rec.total = rec.available + rec.held

\* C18 amended: total() equals available + held in every state and in the
\* state sent to shutdown; the rounded amounts of an output record add up
\* when available and held have no digit beyond the output's last place;
\* Dispute and Resolve never change a client's total, and only Deposit,
\* Withdrawal and Chargeback do.
C18_TotalIsSum ==
    /\ [](\A all \in ReportedStates : \A c \in DOMAIN all :
              /\ total(all[c]) = all[c].available + all[c].held
              /\ (all[c].available % SubUnits = 0 /\ all[c].held % SubUnits = 0)
                     => serialize_decimal(total(all[c])) =
                            serialize_decimal(all[c].available)
                                + serialize_decimal(all[c].held))
    /\ [][\A c \in ClientIds :
              Funds(all_clients', c) # Funds(all_clients, c)
                  => /\ Handled
                     /\ lastEvent'.type \in {"Deposit", "Withdrawal", "Chargeback"}
                     /\ lastEvent'.client_id = c]_vars

\* A Dispute left a total that the output would not report as the sum of
\* the reported available and held.
C18_Witness ==
    /\ lastEvent.type = "Dispute"
    /\ lastResult = "Continue"
    /\ \E rec \in output_client_state(all_clients) :
           /\ rec.client_id = lastEvent.client_id
           /\ rec.total # rec.available + rec.held
    /\ total(all_clients[lastEvent.client_id]) > 0

\* The events of Spec that name another client than c.
OtherClientEvents(c) ==
    {EngineEvent(type, txid, client_id, amount) :
        type \in {"Deposit", "Withdrawal"}, txid \in TxIds,
        client_id \in ClientIds \ {c}, amount \in Amounts}
    \cup
    {EngineEvent(type, txid, client_id, 0) :
        type \in {"Dispute", "Resolve", "Chargeback"}, txid \in TxIds,
        client_id \in ClientIds \ {c}}

\* C21: after a Dispute of a Normal Deposit entry of an unlocked client, a
\* Resolve of the same id, handled at once or after an event of another
\* client, succeeds and leaves the client's account (available, held,
\* locked, the entry's state) as it was before the Dispute, and the entry
\* can be disputed again; an event of another client leaves the account
\* as it is; a successful Resolve of a Disputed Deposit entry moves the
\* entry's amount from held to available and makes the entry Normal.
C21_DisputeResolveRoundTrip ==
    /\ [][(Handled /\ lastEvent'.type = "Dispute"
                   /\ NamesDeposit(all_clients, lastEvent', "Normal"))
          => LET c == lastEvent'.client_id
                 resolve == EngineEvent("Resolve", lastEvent'.txid, c, 0)
             IN  /\ lastResult' = "Continue"
                 /\ \A mid \in {engine_state'} \cup
                        {handle_engine_event(engine_state', e).engine :
                             e \in OtherClientEvents(c)} :
                        LET r == handle_engine_event(mid, resolve)
                        IN  /\ r.out = "Continue"
                            /\ r.engine.all_clients_state[c] = all_clients[c]
                            /\ handle_engine_event(r.engine, lastEvent').out
                                   = "Continue"]_vars
    /\ [][Handled => \A c \in DOMAIN all_clients :
              c # lastEvent'.client_id => all_clients'[c] = all_clients[c]]_vars
    /\ [][(Handled /\ lastEvent'.type = "Resolve" /\ lastResult' = "Continue"
                   /\ NamesDeposit(all_clients, lastEvent', "Disputed"))
          => LET c == lastEvent'.client_id
                 t == lastEvent'.txid
                 a == all_clients[c].tx_lookup[t].amount
             IN  all_clients' =
                     [all_clients EXCEPT ![c].available = @ + a,
                                         ![c].held = @ - a,
                                         ![c].tx_lookup[t].state = "Normal"]]_vars

\* A Resolve succeeded on a deposit whose dispute had left available
\* negative: available before the Resolve was below zero.
C21_Witness ==
    /\ lastEvent.type = "Resolve"
    /\ lastResult = "Continue"
    /\ NamesDeposit(all_clients, lastEvent, "Normal")
    /\ LET client == all_clients[lastEvent.client_id]
       IN  /\ client.available - client.tx_lookup[lastEvent.txid].amount < 0
           /\ client.held = 0

\* The changes of state an entry can go through, with the event that
\* makes each.
LifecycleTransitions ==
    {<<"Normal", "Dispute", "Disputed">>,
     <<"Disputed", "Resolve", "Normal">>,
     <<"Disputed", "Chargeback", "ChargedBack">>}

\* C22: an entry stays in its account; when its state changes, the engine
\* has handled an event naming its client and its id, and the change is
\* Normal to Disputed by a Dispute, Disputed to Normal by a Resolve or
\* Disputed to ChargedBack by a Chargeback; a ChargedBack entry stays
\* ChargedBack, and a Dispute, Resolve or Chargeback carrying its id is
\* rejected.
C22_LifecycleTransitions ==
    [][\A c \in DOMAIN all_clients : \A t \in DOMAIN all_clients[c].tx_lookup :
          /\ c \in DOMAIN all_clients'
          /\ t \in DOMAIN all_clients'[c].tx_lookup
          /\ LET before == all_clients[c].tx_lookup[t].state
                 after == all_clients'[c].tx_lookup[t].state
             IN  /\ after # before
                        => /\ Handled
                           /\ lastEvent'.client_id = c
                           /\ lastEvent'.txid = t
                           /\ <<before, lastEvent'.type, after>> \in LifecycleTransitions
                 /\ before = "ChargedBack"
                        => /\ after = "ChargedBack"
                           /\ (Handled /\ lastEvent'.txid = t
                                       /\ lastEvent'.type \in
                                              {"Dispute", "Resolve", "Chargeback"})
                                  => Rejected(lastResult')]_vars

\* A Dispute naming a ChargedBack entry and its client was rejected.
C22_Witness ==
    /\ lastEvent.type = "Dispute"
    /\ Rejected(lastResult)
    /\ NamesEntry(all_clients, lastEvent)
    /\ all_clients[lastEvent.client_id].tx_lookup[lastEvent.txid].state = "ChargedBack"

\* The event names an existing unlocked client and an id that an entry of
\* another client's account has.
NamesOtherClientsEntry(all, event) ==
    /\ event.client_id \in DOMAIN all
    /\ ~all[event.client_id].locked
    /\ \E owner \in DOMAIN all :
           /\ owner # event.client_id
           /\ event.txid \in DOMAIN all[owner].tx_lookup

\* C23: a Dispute, Resolve or Chargeback naming an existing unlocked client
\* and an id owned by another client is rejected with TxNotFound
\* (TransactionNotFound) and changes nothing: no balance, no lock flag, no
\* entry of either client.
C23_WrongClientRejected ==
    [][(Handled /\ lastEvent'.type \in {"Dispute", "Resolve", "Chargeback"}
                /\ NamesOtherClientsEntry(all_clients, lastEvent'))
       => /\ lastResult' = "TxNotFound"
          /\ engine_state' = engine_state]_vars

\* A Chargeback naming an unlocked client was rejected with TxNotFound while
\* the id it carries is a Disputed Deposit entry of another, unlocked client.
C23_Witness ==
    /\ lastEvent.type = "Chargeback"
    /\ lastResult = "TxNotFound"
    /\ NamesOtherClientsEntry(all_clients, lastEvent)
    /\ \E owner \in DOMAIN all_clients :
           /\ ~all_clients[owner].locked
           /\ lastEvent.txid \in DOMAIN all_clients[owner].tx_lookup
           /\ all_clients[owner].tx_lookup[lastEvent.txid].kind = "Deposit"
           /\ all_clients[owner].tx_lookup[lastEvent.txid].state = "Disputed"

\* The ids of the Deposit entries of a client that are in the given state.
DepositIds(client, state) ==
    {t \in DOMAIN client.tx_lookup :
        /\ client.tx_lookup[t].kind = "Deposit"
        /\ client.tx_lookup[t].state = state}

\* C24: with non-negative amounts no event has been answered with
\* InternalError and the process has not exited; the held balance of an
\* unlocked client is at least the amount of each of its Disputed Deposit
\* entries, so a Resolve and a Chargeback of such an entry both succeed.
C24_NoInternalError ==
    /\ lastResult # "InternalError"
    /\ enginePc # "exited"
    /\ \A c \in DOMAIN all_clients :
           ~all_clients[c].locked =>
               \A t \in DepositIds(all_clients[c], "Disputed") :
                   /\ all_clients[c].tx_lookup[t].amount >= 0
                   /\ all_clients[c].held >= all_clients[c].tx_lookup[t].amount
                   /\ handle_engine_event(engine_state,
                          EngineEvent("Resolve", t, c, 0)).out = "Continue"
                   /\ handle_engine_event(engine_state,
                          EngineEvent("Chargeback", t, c, 0)).out = "Continue"

\* A Resolve passed the held check while another Deposit entry of the same
\* unlocked client, of a positive amount, is still Disputed.
C24_Witness ==
    /\ lastEvent.type = "Resolve"
    /\ lastResult = "Continue"
    /\ ~all_clients[lastEvent.client_id].locked
    /\ \E t \in DepositIds(all_clients[lastEvent.client_id], "Disputed") :
           all_clients[lastEvent.client_id].tx_lookup[t].amount > 0

\* The ids of the Withdrawal entries of a client, in whatever state.
WithdrawalIds(client) ==
    {t \in DOMAIN client.tx_lookup : client.tx_lookup[t].kind = "Withdrawal"}

\* The sum of the amounts of the entries of a client that have the given ids.
RECURSIVE SumAmounts(_, _)
SumAmounts(client, ids) ==
    IF ids = {} THEN 0
    ELSE LET t == CHOOSE x \in ids : TRUE
         IN  client.tx_lookup[t].amount + SumAmounts(client, ids \ {t})

\* C25: with non-negative amounts, in every account held is the sum of the
\* amounts of the Disputed Deposit entries and is not negative, and
\* available is the sum of the amounts of the Normal Deposit entries minus
\* the sum of the amounts of the Withdrawal entries.
C25_BalancesFromEntries ==
    \A c \in DOMAIN all_clients :
        LET client == all_clients[c]
        IN  /\ client.held = SumAmounts(client, DepositIds(client, "Disputed"))
            /\ client.held >= 0
            /\ client.available =
                   SumAmounts(client, DepositIds(client, "Normal"))
                       - SumAmounts(client, WithdrawalIds(client))

\* A deposit was disputed after part of it was withdrawn: the account has a
\* Disputed Deposit entry and a Withdrawal entry of positive amounts, and no
\* Normal Deposit entry, so available is negative.
C25_Witness ==
    \E c \in DOMAIN all_clients :
        LET client == all_clients[c]
        IN  /\ SumAmounts(client, DepositIds(client, "Disputed")) > 0
            /\ SumAmounts(client, WithdrawalIds(client)) > 0
            /\ DepositIds(client, "Normal") = {}
            /\ client.available < 0

\* C26: an account is locked exactly when it owns a ChargedBack Deposit
\* entry, and it owns at most one; once locked it never changes again.
C26_LockedIffChargedBackDeposit ==
    /\ [](\A c \in DOMAIN all_clients :
              /\ all_clients[c].locked
                     <=> DepositIds(all_clients[c], "ChargedBack") # {}
              /\ Cardinality(DepositIds(all_clients[c], "ChargedBack")) <= 1)
    /\ [][\A c \in DOMAIN all_clients :
              all_clients[c].locked
                  => /\ c \in DOMAIN all_clients'
                     /\ all_clients'[c] = all_clients[c]]_vars

\* A Chargeback of a second Disputed Deposit entry of an account was rejected
\* because the Chargeback of the first had locked the account.
C26_Witness ==
    /\ lastEvent.type = "Chargeback"
    /\ lastResult = "ClientLocked"
    /\ lastEvent.client_id \in DOMAIN all_clients
    /\ LET client == all_clients[lastEvent.client_id]
       IN  /\ client.locked
           /\ lastEvent.txid \in DepositIds(client, "Disputed")
           /\ Cardinality(DepositIds(client, "ChargedBack")) = 1

\* ------------------------------------------------------------------------
\* Properties of the producer, the channel and the engine task (ChanSpec)
\* ------------------------------------------------------------------------
\* Where the loop left the engine task: a task that ended after sending the
\* state left the loop at Exit.
LoopPc(pc) == IF pc = "returned" THEN "send_state" ELSE pc

RECURSIVE ApplyQueue(_, _)
\* The events of a queue applied in order, oldest first.
ApplyQueue(ref, queue) ==
    IF queue = <<>> THEN ref
    ELSE ApplyQueue(ReferenceStep(ref, Head(queue)), Tail(queue))

\* C7: the engine state followed by the queued events, applied oldest
\* first, is the sequential application of the events submitted so far;
\* Exit is handled when nothing is queued before or after it; and the
\* state that shutdown returns is the sequential application of exactly the
\* events submitted before shutdown.
C7_SnapshotIsSequential ==
    /\ ApplyQueue([engine |-> engine_state, pc |-> LoopPc(enginePc)], chan) = reference
    /\ enginePc \in {"send_state", "returned"} => chan = <<>>
    /\ response # <<>> => Head(response) = reference.engine
    /\ producerPc = "done" =>
           /\ reference.pc = "send_state"
           /\ returned = reference.engine

\* shutdown returned a state in which a client is locked with a non-zero
\* available balance, after more than one id was seen.
C7_Witness ==
    /\ producerPc = "done"
    /\ \E c \in DOMAIN returned.all_clients_state :
           /\ returned.all_clients_state[c].locked
           /\ returned.all_clients_state[c].available # 0
    /\ Cardinality(returned.seen_txids) > 1

\* C8: after a soft error the engine task is still running and takes the
\* next queued event; after InternalError the process has exited: no step
\* is taken any more and shutdown never returns a state.
C8_SoftContinuesHardStops ==
    /\ [](lastResult \in SoftErrors =>
              /\ enginePc = "running"
              /\ chan # <<>> => ENABLED EngineRecv)
    /\ [](lastResult = "InternalError" <=> enginePc = "exited")
    /\ [](enginePc = "exited" => producerPc # "done" /\ response = <<>>)
    /\ [][enginePc # "exited"]_vars

\* The process exited on InternalError with events still queued.
C8_Witness ==
    /\ lastResult = "InternalError"
    /\ enginePc = "exited"
    /\ chan # <<>>

\* C19: the channel never holds more than CHANNEL_BUFFER_SIZE events; a step
\* changes it either by appending the one event being submitted, which
\* happens only while it holds fewer than CHANNEL_BUFFER_SIZE events, or by
\* removing its oldest event, which is the event the engine handles then; the
\* engine handles no event but the one it removes.
C19_BoundedQueue ==
    /\ [](Len(chan) <= CHANNEL_BUFFER_SIZE)
    /\ [][\/ chan' = chan /\ ~Handled /\ reference' = reference
          \/ /\ Len(chan) < CHANNEL_BUFFER_SIZE
             /\ ~Handled
             /\ \E event \in ChanEvents \cup {ExitEvent} :
                    /\ chan' = Append(chan, event)
                    /\ reference' = ReferenceStep(reference, event)
          \/ /\ chan # <<>>
             /\ Handled
             /\ lastEvent' = Head(chan)
             /\ chan' = Tail(chan)
             /\ reference' = reference]_vars

\* The channel is full again after the engine has taken events from it, and
\* the producer has more to send.
C19_Witness ==
    /\ Len(chan) = CHANNEL_BUFFER_SIZE
    /\ producerPc = "input"
    /\ enginePc = "running"
    /\ lastEvent # NoEvent

\* C20: once the producer has called shutdown, the engine handles Exit or the
\* process exits on an InternalError, and in the first case the engine task
\* sends its state and ends, and shutdown returns; the state is sent once, by
\* the task resumed after it handled Exit, and it is the state at Exit; from
\* Exit on the engine handles no event, its channel stays empty and its
\* state stays what it was; what shutdown returned never changes.
C20_ShutdownTerminates ==
    /\ (producerPc = "await_state") ~> (enginePc \in {"returned", "exited"})
    /\ (producerPc = "await_state") ~> (producerPc = "done" \/ enginePc = "exited")
    /\ [](lastEvent = ExitEvent <=> enginePc \in {"send_state", "returned"})
    /\ [](producerPc = "done" =>
              /\ enginePc = "returned"
              /\ lastEvent = ExitEvent
              /\ returned = engine_state
              /\ response = <<>>)
    /\ [](enginePc \in {"send_state", "returned"} =>
              chan = <<>> /\ producerPc # "input")
    /\ [](enginePc = "send_state" => response = <<>> /\ producerPc = "await_state")
    /\ [][Len(response') > Len(response) =>
              /\ response = <<>>
              /\ response' = <<engine_state>>
              /\ returned = NoState
              /\ enginePc = "send_state"
              /\ enginePc' = "returned"
              /\ lastEvent = ExitEvent]_vars
    /\ [][(enginePc = "send_state" \/ enginePc = "returned") =>
              /\ ~Handled
              /\ chan' = chan
              /\ engine_state' = engine_state
              /\ enginePc' = "returned"]_vars
    /\ [][producerPc = "done" => returned' = returned /\ producerPc' = "done"]_vars

\* shutdown has returned the state of an engine that handled events before
\* Exit, none of them with an InternalError.
C20_Witness ==
    /\ producerPc = "done"
    /\ enginePc = "returned"
    /\ returned.all_clients_state # EmptyMap
    /\ reference.pc = "send_state"

====
